---------------------------- MODULE Spec2Model ----------------------------
(***************************************************************************)
(* Model of nl2sql-service/app.py: a FastAPI application with two routes,  *)
(* POST /query (body validated into QueryRequest, answered by query) and   *)
(* GET /health (answered by health).                                       *)
(*                                                                         *)
(* Text is a sequence of one-character strings, so that the f-string of    *)
(* query is a concatenation the checks can tell from any other rendering.  *)
(* A JSON value is a record tagged by its JSON type.  A request body is a  *)
(* JSON object, modelled as a function from its keys to JSON values.       *)
(* The number 0.5 is the exact ratio 1/2.                                  *)
(*                                                                         *)
(* The server handles several exchanges at once: each connection slot      *)
(* walks idle -> received -> handler -> responded -> idle (a GET /health   *)
(* has no body to validate and goes from received to responded), and the   *)
(* steps of different slots interleave freely: the event loop may switch   *)
(* tasks between body validation and the endpoint call, while the endpoint *)
(* functions themselves contain no await and run as one step.              *)
(*                                                                         *)
(* Body validation follows the rules FastAPI applies with the pydantic 2   *)
(* string validator: a str field takes a JSON string only.  The lax rule   *)
(* of pydantic 1, which turns a JSON number into its decimal text, is      *)
(* kept as QueryRequestLax and used to show which statements rest on it.   *)
(***************************************************************************)
EXTENDS Integers, Sequences, FiniteSets, TLC

VARIABLES conn

vars == <<conn>>

-----------------------------------------------------------------------------
(* Bounds of the model *)

MaxConn == 2

MaxLen == 1

Conns == 1 .. MaxConn

-----------------------------------------------------------------------------
(* Text and JSON values *)

Alphabet == {"a", "'", "%"}

RECURSIVE TextUpTo(_)
TextUpTo(n) ==
    IF n = 0 THEN {<<>>}
    ELSE LET shorter == TextUpTo(n - 1)
         IN  shorter \cup {Append(t, c) : t \in shorter, c \in Alphabet}

Text == TextUpTo(MaxLen)

Numbers == {0, 12}

JStr(s) == [t |-> "str", s |-> s]

JNum(n) == [t |-> "num", n |-> n]

JNull == [t |-> "null"]

JList == [t |-> "list", items |-> <<JStr(<<"a">>)>>]

JsonValues == {JStr(s) : s \in Text} \cup {JNum(n) : n \in Numbers} \cup {JNull, JList}

EmptyObject == [k \in {} |-> JNull]

Bodies == {EmptyObject} \cup {[query |-> v] : v \in JsonValues}

DigitChar(d) ==
    CASE d = 0 -> "0" [] d = 1 -> "1" [] d = 2 -> "2" [] d = 3 -> "3"
      [] d = 4 -> "4" [] d = 5 -> "5" [] d = 6 -> "6" [] d = 7 -> "7"
      [] d = 8 -> "8" [] d = 9 -> "9"

RECURSIVE Decimal(_)
Decimal(n) ==
    IF n < 10 THEN <<DigitChar(n)>>
    ELSE Append(Decimal(n \div 10), DigitChar(n % 10))

-----------------------------------------------------------------------------
(* QueryRequest: validation of the request body *)

Valid(q) == [ok |-> TRUE, query |-> q]

Invalid(type) == [ok |-> FALSE, detail |-> <<[type |-> type, loc |-> <<"body", "query">>]>>]

QueryRequestLax(body) ==
    IF "query" \notin DOMAIN body THEN Invalid("missing")
    ELSE IF body.query.t = "str" THEN Valid(body.query.s)
    ELSE IF body.query.t = "num" THEN Valid(Decimal(body.query.n))
    ELSE Invalid("string_type")

QueryRequestDefaulted(body) ==
    IF "query" \notin DOMAIN body THEN Valid(<<>>)
    ELSE IF body.query.t = "str" THEN Valid(body.query.s)
    ELSE Invalid("string_type")

QueryRequestNonEmpty(body) ==
    IF "query" \notin DOMAIN body THEN Invalid("missing")
    ELSE IF body.query.t # "str" THEN Invalid("string_type")
    ELSE IF body.query.s = <<>> THEN Invalid("string_too_short")
    ELSE Valid(body.query.s)

QueryRequest(body) ==
    IF "query" \notin DOMAIN body THEN Invalid("missing")
    ELSE IF body.query.t = "str" THEN Valid(body.query.s)
    ELSE Invalid("string_type")

-----------------------------------------------------------------------------
(* The endpoint functions *)

Prefix ==
    << "S", "E", "L", "E", "C", "T", " ", "*", " ", "F", "R",
       "O", "M", " ", "t", "a", "b", "l", "e", " ", "W", "H",
       "E", "R", "E", " ", "d", "e", "s", "c", "r", "i", "p",
       "t", "i", "o", "n", " ", "L", "I", "K", "E", " ", "'",
       "%" >>

Suffix == << "%", "'" >>

Explanation == "This is a placeholder NL2SQL service. Replace with your actual implementation."

Half == [num |-> 1, den |-> 2]

RECURSIVE EscapeQuotes(_)
EscapeQuotes(q) ==
    IF q = <<>> THEN <<>>
    ELSE IF Head(q) = "'" THEN <<"'", "'">> \o EscapeQuotes(Tail(q))
    ELSE <<Head(q)>> \o EscapeQuotes(Tail(q))

InHandler == {j \in Conns : conn[j].pc = "handler"}

queryEscaped(request) ==
    [sql         |-> Prefix \o EscapeQuotes(request.query) \o Suffix,
     explanation |-> Explanation,
     confidence  |-> Half]

queryShared(request) ==
    LET first == CHOOSE j \in InHandler : \A k \in InHandler : j <= k
    IN  [sql         |-> Prefix \o conn[first].request.query \o Suffix,
         explanation |-> Explanation,
         confidence  |-> Half]

queryLoadDependent(request) ==
    [sql         |-> Prefix \o request.query \o Suffix,
     explanation |-> Explanation,
     confidence  |-> [num |-> 1, den |-> 1 + Cardinality(InHandler)]]

queryScored(request) ==
    [sql         |-> Prefix \o request.query \o Suffix,
     explanation |-> Explanation,
     confidence  |-> [num |-> 1, den |-> 2 + Len(request.query)]]

queryExplained(request) ==
    [sql         |-> Prefix \o request.query \o Suffix,
     explanation |-> IF request.query = <<>> THEN "Empty query." ELSE Explanation,
     confidence  |-> Half]

query(request) ==
    [sql         |-> Prefix \o request.query \o Suffix,
     explanation |-> Explanation,
     confidence  |-> Half]

healthBusy ==
    [status  |-> IF InHandler = {} THEN "ok" ELSE "busy",
     service |-> "nl2sql-service"]

health == [status |-> "ok", service |-> "nl2sql-service"]

-----------------------------------------------------------------------------
(* The application: connection slots and the steps of an exchange *)

Idle == [pc |-> "idle"]

Init == conn = [i \in Conns |-> Idle]

ReceiveQuery(i) ==
    /\ conn[i].pc = "idle"
    /\ \E b \in Bodies :
          conn' = [conn EXCEPT ![i] = [pc |-> "received", route |-> "POST /query", body |-> b]]

ReceiveHealth(i) ==
    /\ conn[i].pc = "idle"
    /\ conn' = [conn EXCEPT ![i] = [pc |-> "received", route |-> "GET /health", body |-> EmptyObject]]

Validate(i) ==
    /\ conn[i].pc = "received"
    /\ conn[i].route = "POST /query"
    /\ LET r == QueryRequest(conn[i].body)
       IN  IF r.ok
           THEN conn' = [conn EXCEPT ![i] =
                    [pc |-> "handler", route |-> conn[i].route, body |-> conn[i].body,
                     request |-> [query |-> r.query]]]
           ELSE conn' = [conn EXCEPT ![i] =
                    [pc |-> "responded", route |-> conn[i].route, body |-> conn[i].body,
                     status |-> 422, response |-> [detail |-> r.detail]]]

RunQueryFailing(i) ==
    /\ conn[i].pc = "handler"
    /\ conn[i].route = "POST /query"
    /\ conn' = [conn EXCEPT ![i] =
                    [pc |-> "responded", route |-> conn[i].route, body |-> conn[i].body,
                     status |-> IF conn[i].request.query = <<>> THEN 500 ELSE 200,
                     response |-> IF conn[i].request.query = <<>>
                                  THEN [detail |-> "Internal Server Error"]
                                  ELSE query(conn[i].request)]]

RunQuery(i) ==
    /\ conn[i].pc = "handler"
    /\ conn[i].route = "POST /query"
    /\ conn' = [conn EXCEPT ![i] =
                    [pc |-> "responded", route |-> conn[i].route, body |-> conn[i].body,
                     status |-> 200, response |-> query(conn[i].request)]]

RunHealth(i) ==
    /\ conn[i].pc = "received"
    /\ conn[i].route = "GET /health"
    /\ conn' = [conn EXCEPT ![i] =
                    [pc |-> "responded", route |-> conn[i].route, body |-> conn[i].body,
                     status |-> 200, response |-> health]]

Complete(i) ==
    /\ conn[i].pc = "responded"
    /\ conn' = [conn EXCEPT ![i] = Idle]

Next ==
    \E i \in Conns :
        \/ ReceiveQuery(i)
        \/ ReceiveHealth(i)
        \/ Validate(i)
        \/ RunQuery(i)
        \/ RunHealth(i)
        \/ Complete(i)

Spec == Init /\ [][Next]_vars

FairSpec ==
    /\ Spec
    /\ \A i \in Conns : WF_vars(Validate(i)) /\ WF_vars(RunQuery(i)) /\ WF_vars(RunHealth(i))

-----------------------------------------------------------------------------
(* Vocabulary of the properties *)

Answered(i) == conn[i].pc = "responded"

Posted(i) == conn[i].pc # "idle" /\ conn[i].route = "POST /query"

HasField(i) == "query" \in DOMAIN conn[i].body

HasText(i) == HasField(i) /\ conn[i].body.query.t = "str"

Asked(i) == conn[i].body.query.s

Served(i) == Posted(i) /\ Answered(i) /\ conn[i].status = 200

Rejected(i) == Posted(i) /\ Answered(i) /\ conn[i].status = 422

CanStep(i) ==
    ENABLED (\/ ReceiveQuery(i) \/ ReceiveHealth(i) \/ Validate(i)
             \/ RunQuery(i) \/ RunHealth(i) \/ Complete(i))

-----------------------------------------------------------------------------
(* C1: every answered POST /query whose query field is a non-empty text q  *)
(* has status 200 and an sql field equal to the template's head, then q    *)
(* character for character, then the template's tail; a quote or a percent *)
(* sign in q is copied unchanged.                                          *)
C1_SqlEmbedsQueryVerbatim ==
    \A i \in Conns :
        (Posted(i) /\ Answered(i) /\ HasText(i) /\ Asked(i) # <<>>) =>
            /\ conn[i].status = 200
            /\ conn[i].response.sql = Prefix \o Asked(i) \o Suffix
            /\ Len(conn[i].response.sql) = Len(Prefix) + Len(Asked(i)) + Len(Suffix)

C1_Witness ==
    \E i, j \in Conns :
        /\ Served(i) /\ HasText(i) /\ Asked(i) = <<"'">>
        /\ Served(j) /\ HasText(j) /\ Asked(j) = <<"%">>

(* C2: a POST /query whose body lacks the query field never reaches the    *)
(* endpoint function; it is answered 422 with the validation detail and    *)
(* without an sql field, and with such a rejection on the table every      *)
(* slot of the server can still take its next step.                        *)
C2_MissingFieldRejected ==
    \A i \in Conns :
        (Posted(i) /\ ~HasField(i)) =>
            /\ conn[i].pc # "handler"
            /\ Answered(i) =>
                  /\ conn[i].status = 422
                  /\ DOMAIN conn[i].response = {"detail"}
                  /\ conn[i].response.detail[1].type = "missing"
                  /\ \A j \in Conns : CanStep(j)

C2_Witness ==
    \E i, j \in Conns :
        /\ Rejected(i) /\ ~HasField(i)
        /\ Served(j) /\ HasText(j)

(* C3: a POST /query whose query field is present but is not text (a       *)
(* number, a list, null) never reaches the endpoint function and is        *)
(* answered 422, never 200 with a value made out of the input.             *)
C3_WrongTypeRejected ==
    \A i \in Conns :
        (Posted(i) /\ HasField(i) /\ ~HasText(i)) =>
            /\ conn[i].pc # "handler"
            /\ Answered(i) =>
                  /\ conn[i].status = 422
                  /\ "sql" \notin DOMAIN conn[i].response

C3_Witness ==
    \E i, j \in Conns :
        /\ Rejected(i) /\ HasField(i) /\ conn[i].body.query.t = "num"
        /\ Rejected(j) /\ HasField(j) /\ conn[j].body.query.t \in {"null", "list"}

(* C4: every answered GET /health has status 200 and the payload           *)
(* {status: ok, service: nl2sql-service}, whatever the other slots hold.   *)
C4_HealthConstant ==
    \A i \in Conns :
        (Answered(i) /\ conn[i].route = "GET /health") =>
            /\ conn[i].status = 200
            /\ conn[i].response = [status |-> "ok", service |-> "nl2sql-service"]

C4_Witness ==
    \E i, j \in Conns :
        /\ Answered(i) /\ conn[i].route = "GET /health"
        /\ Posted(j) /\ conn[j].pc \in {"handler", "responded"}

(* C5: two served POST /query exchanges carrying the same query text have  *)
(* the same response, field for field.                                     *)
C5_SameQuerySameResponse ==
    \A i, j \in Conns :
        (Served(i) /\ Served(j) /\ HasText(i) /\ HasText(j) /\ Asked(i) = Asked(j)) =>
            /\ conn[i].response.sql = conn[j].response.sql
            /\ conn[i].response.explanation = conn[j].response.explanation
            /\ conn[i].response.confidence = conn[j].response.confidence

C5_Witness ==
    \E i, j \in Conns :
        /\ i # j
        /\ Served(i) /\ Served(j) /\ HasText(i) /\ HasText(j)
        /\ Asked(i) = Asked(j)
        /\ Asked(i) # <<>>

(* C6: the confidence of every served POST /query is 1/2, for the empty    *)
(* query too.                                                              *)
C6_ConfidenceHalf ==
    \A i \in Conns :
        Served(i) =>
            /\ conn[i].response.confidence.num = 1
            /\ conn[i].response.confidence.den = 2

C6_Witness ==
    \E i, j \in Conns :
        /\ Served(i) /\ HasText(i) /\ Asked(i) = <<>>
        /\ Served(j) /\ HasText(j) /\ Asked(j) # <<>>

(* C7: the explanation of every served POST /query is the fixed            *)
(* placeholder sentence.                                                   *)
C7_ExplanationFixed ==
    \A i \in Conns :
        Served(i) =>
            conn[i].response.explanation =
                "This is a placeholder NL2SQL service. Replace with your actual implementation."

C7_Witness ==
    \E i, j \in Conns :
        /\ Served(i) /\ Served(j) /\ HasText(i) /\ HasText(j)
        /\ Asked(i) = <<>>
        /\ Len(Asked(j)) = MaxLen

(* C8: a POST /query whose query field is the empty text passes            *)
(* validation and is answered 200 with the template around nothing.        *)
C8_EmptyQueryAccepted ==
    \A i \in Conns :
        (Posted(i) /\ HasText(i) /\ Asked(i) = <<>> /\ Answered(i)) =>
            /\ conn[i].status = 200
            /\ conn[i].response.sql = Prefix \o <<"%", "'">>

C8_Witness ==
    \E i \in Conns : Served(i) /\ HasText(i) /\ Asked(i) = <<>>

(* C9: with several exchanges in flight, the sql of a served request       *)
(* embeds its own query and not the different query of another slot, a     *)
(* health answer is the fixed payload, and every step of the server        *)
(* changes the slot it serves and no other.                                *)
OwnInputOnly ==
    \A i \in Conns :
        /\ (Served(i) /\ HasText(i)) =>
              /\ conn[i].response.sql = Prefix \o Asked(i) \o Suffix
              /\ \A j \in Conns :
                    (Posted(j) /\ HasText(j) /\ Asked(j) # Asked(i)) =>
                        conn[i].response.sql # Prefix \o Asked(j) \o Suffix
        /\ (conn[i].pc = "handler") => conn[i].request.query = Asked(i)

OneSlotPerStep ==
    \E i \in Conns : \A j \in Conns \ {i} : conn'[j] = conn[j]

C9_RequestsIsolated == []OwnInputOnly /\ [][OneSlotPerStep]_vars

C9_Witness ==
    \E i, j \in Conns :
        /\ Served(i) /\ HasText(i)
        /\ conn[j].pc = "handler" /\ conn[j].request.query # Asked(i)

(* C10: an answered POST /query is either a 200 with exactly the fields    *)
(* sql, explanation and confidence (text query field) or a 422 carrying    *)
(* the validation detail (any other body), and every received request is   *)
(* eventually answered.                                                    *)
TwoOutcomes ==
    \A i \in Conns :
        (Posted(i) /\ Answered(i)) =>
            IF HasText(i)
            THEN /\ conn[i].status = 200
                 /\ DOMAIN conn[i].response = {"sql", "explanation", "confidence"}
            ELSE /\ conn[i].status = 422
                 /\ DOMAIN conn[i].response = {"detail"}

C10_TwoOutcomesAlwaysAnswered ==
    /\ []TwoOutcomes
    /\ \A i \in Conns : (conn[i].pc \in {"received", "handler"}) ~> (conn[i].pc = "responded")

C10_Witness ==
    \E i, j \in Conns :
        /\ Served(i) /\ DOMAIN conn[i].response = {"sql", "explanation", "confidence"}
        /\ Rejected(j) /\ DOMAIN conn[j].response = {"detail"}

=============================================================================
